---- MODULE Spec2Model ----
(***************************************************************************)
(* Batch conversion pipeline of the barcode / QR code generator plugin:    *)
(*   - UploadQueue            (src/src/utils/uploadQueue.ts)               *)
(*   - useEnhancedUpload      (src/src/hooks/useEnhancedUpload.ts)         *)
(*   - useBaseCodeConversion  (src/unnamed/part_007)                       *)
(*                                                                         *)
(* Time.  The code reads the clock only as a difference                    *)
(* (now - lastRequestTime) and through setTimeout / setInterval delays, so *)
(* the model keeps every clock as a distance in milliseconds: the time     *)
(* elapsed since lastRequestTime (saturated at requestInterval, the only   *)
(* value it is compared with) and, for every pending timer, the time left  *)
(* before it is due.  Advance(d) lets d milliseconds pass.  A timer may    *)
(* fire any time after it is due (event-loop jitter), never before.        *)
(*                                                                         *)
(* Atomicity.  JavaScript runs one macrotask (a timer callback, an I/O     *)
(* completion, a user event) with all the microtasks it triggers to        *)
(* completion before the next one; one action of the model is one such     *)
(* macrotask.                                                              *)
(***************************************************************************)
EXTENDS Integers, Sequences, FiniteSets, Bags, TLC

\* ------------------------------------------------------------------ bounds
\* Number of tasks the harness of SpecQueue may submit.
MaxTasks == 2
\* Longest record list the data source returns in Spec.
MaxRecords == 2
\* Number of attempts, over all tasks, that the environment lets fail (an
\* execute() that rejects or that outlasts requestTimeout).
MaxFaults == 4
\* Longest record list the data source returns in SpecOrder.
MaxOrderRecords == 3
\* maxRetries of the queue in SpecBackoff.
MaxBackoffRetries == 6
\* Number of times handleConvert may be called again during a run in
\* SpecReentry.
MaxLaterRuns == 1

TaskIds ==
  1..(IF MaxTasks >= MaxRecords /\ MaxTasks >= MaxOrderRecords THEN MaxTasks
      ELSE IF MaxRecords >= MaxOrderRecords THEN MaxRecords
      ELSE MaxOrderRecords)

\* ------------------------------------------------------- program constants
\* An option that was not given (maxRetries?: number).
Undefined == 0 - 1
\* x || d of JavaScript on an optional number: undefined and 0 are falsy.
OrDefault(x, d) == IF x = Undefined \/ x = 0 THEN d ELSE x

DefaultMaxConcurrency == 3
DefaultRequestInterval == 300
DefaultMaxRetries == 3
DefaultRequestTimeout == 30000
BackoffBaseMs == 1000
BackoffCapMs == 10000
\* maxRetries uploadFile gives every upload task.
UploadMaxRetries == 3

Min(a, b) == IF a < b THEN a ELSE b
Max(a, b) == IF a > b THEN a ELSE b

\* new UploadQueue(options): the four fields the constructor sets.
QueueConfig(options) ==
  [ maxConcurrency  |-> OrDefault(options.maxConcurrency, DefaultMaxConcurrency),
    requestInterval |-> OrDefault(options.requestInterval, DefaultRequestInterval),
    maxRetries      |-> OrDefault(options.maxRetries, DefaultMaxRetries),
    requestTimeout  |-> OrDefault(options.requestTimeout, DefaultRequestTimeout) ]

\* The options of the exported defaultUploadQueue.
DefaultQueueOptions ==
  [ maxConcurrency |-> 3, requestInterval |-> 150,
    maxRetries |-> 3, requestTimeout |-> 30000 ]

\* ------------------------------------------------------------------ errors
\* An error object as shouldRetry reads it: error.response?.status (0: no
\* response), error.code ("" : none) and error.message.
HttpError(s) == [status |-> s, code |-> "ERR_BAD_RESPONSE", message |-> "Request failed"]
TimeoutError == [status |-> 0, code |-> "", message |-> "Request timeout"]
QueueCleared == [status |-> 0, code |-> "", message |-> "Queue cleared"]
NoError      == [status |-> 0, code |-> "", message |-> ""]

\* Faulty variant: every 5xx answer is retried.
ShouldRetryAnyServerError(error) ==
  \/ error.status >= 500
  \/ error.code = "NETWORK_ERROR" \/ error.code = "ECONNRESET"
  \/ error.code = "ECONNABORTED" \/ error.message = "Request timeout"

\* shouldRetry(error)
ShouldRetry(error) ==
  \/ error.status = 500
  \/ error.status = 502
  \/ error.status = 503
  \/ error.status = 504
  \/ error.code = "NETWORK_ERROR" \/ error.code = "ECONNRESET"
  \/ error.code = "ECONNABORTED" \/ error.message = "Request timeout"

\* Faulty variant: the delay doubles without a cap.
BackoffDelayUncapped(retryCount) == (2 ^ retryCount) * BackoffBaseMs

\* Math.min(Math.pow(2, retryCount) * 1000, 10000)
BackoffDelay(retryCount) == Min((2 ^ retryCount) * BackoffBaseMs, BackoffCapMs)

\* ------------------------------------------------------------------- state
VARIABLES
  \* UploadQueue
  cfg,                   \* maxConcurrency, requestInterval, maxRetries, requestTimeout
  queue,                 \* this.queue: ids of the tasks waiting, head first
  running,               \* this.running
  timeSinceLastRequest,  \* now - this.lastRequestTime, saturated at requestInterval
  rateTimers,            \* bag of the ms left of each setTimeout(processQueue, waitTime)
  tasks,                 \* per task id: the UploadTask, where its execution stands
                         \* (st, timer: ms left of the race or the backoff timer),
                         \* how often execute() was called, the last error caught
  \* measurements on the queue (not read by the code)
  sinceDispatch,         \* ms since the latest initial dispatch, saturated likewise
  lastGap,               \* ms between the two latest initial dispatches, saturated
  retrySince,            \* timeSinceLastRequest when the latest retry attempt began
  queueOptions,          \* the options the queue was constructed with
  faults,                \* attempts that failed so far
  waiter,                \* where a call of waitForCompletion() stands
  abandoned,             \* calls <<task, call>> of execute() whose race ended on
                         \* the timeout and that have not settled yet, where
                         \* the specification follows them
  \* useUploadToken and the requests of uploadFile
  bridge,                \* usePluginBridge() returned a bridge
  issued,                \* number of tokens bridge.getSelfTempToken() has answered with
  authToken,             \* the token setAuthToken stored last (0: none)
  requests,              \* the axios.post calls made: task, call of execute(), token sent
  \* shouldRetry on its own
  thrown,                \* the error handed to shouldRetry
  verdict,               \* what shouldRetry returned for it ("none": not asked yet)
  \* useBaseCodeConversion
  pc,                    \* where handleConvert stands
  records,               \* records[i..]: the records the for loop has not reached yet
  idx,                   \* i: index (from 1) of the last record the loop reached
  totalItems,
  stats,                 \* React state {success, failed, processing}
  progress,              \* React state progress, as a fraction of 100
  isConverting,
  uploadTasks,           \* record indices pushed to uploadTasks, in order
  successfulUploads,
  intervalActive,        \* uploadProgressInterval is set and not cleared
  encoded,               \* records generateCode was called for (measurement)
  encodeFailures,        \* records generateCode failed for (measurement)
  promise,               \* the promise handleConvert returned for the run
  caught,                \* the error the catch block of handleConvert caught
  laterRuns              \* later calls of handleConvert that wait for getRecords

qvars == <<cfg, queue, running, timeSinceLastRequest, rateTimers, tasks,
           sinceDispatch, lastGap, retrySince, queueOptions, faults, waiter,
           abandoned,
           bridge, issued, authToken, requests,
                 thrown, verdict>>
pvars == <<pc, records, idx, totalItems, stats, progress, isConverting,
           uploadTasks, successfulUploads, intervalActive, encoded,
           encodeFailures, promise, caught, laterRuns>>
vars == <<qvars, pvars>>

\* ------------------------------------------------------------ UploadQueue
\* A task id that was never submitted.
NoTask ==
  [ st |-> "none", given |-> Undefined, maxRetries |-> 0, retryCount |-> 0,
    calls |-> 0, timer |-> 0, error |-> NoError ]

\* The queue's fields as one value, so that a handler's nested calls compose.
QState ==
  [ queue |-> queue, running |-> running, since |-> timeSinceLastRequest,
    rateTimers |-> rateTimers, tasks |-> tasks,
    sinceDispatch |-> sinceDispatch, lastGap |-> lastGap,
    retrySince |-> retrySince,
    abandoned |-> abandoned ]

SetQState(q) ==
  /\ queue' = q.queue
  /\ running' = q.running
  /\ timeSinceLastRequest' = q.since
  /\ rateTimers' = q.rateTimers
  /\ tasks' = q.tasks
  /\ sinceDispatch' = q.sinceDispatch
  /\ lastGap' = q.lastGap
  /\ retrySince' = q.retrySince
  /\ abandoned' = q.abandoned
  /\ UNCHANGED <<cfg, queueOptions, waiter, bridge, issued, authToken, requests,
                 thrown, verdict>>

\* A step in which no attempt fails.
NoFault == faults' = faults
\* A step in which the environment makes one attempt fail.
OneFault == faults < MaxFaults /\ faults' = faults + 1

\* Faulty variant: the timeout of the first attempt is the only one armed.
StartExecuteKeepsTimer(q, t) ==
  [q EXCEPT !.tasks[t].st = "executing",
            !.tasks[t].calls = @ + 1,
            !.tasks[t].timer = IF q.tasks[t].calls = 0 THEN cfg.requestTimeout ELSE @]

\* executeWithRetry up to its await: task.execute() is called and raced
\* against a requestTimeout timer.
StartExecute(q, t) ==
  [q EXCEPT !.tasks[t].st = "executing",
            !.tasks[t].calls = @ + 1,
            !.tasks[t].timer = cfg.requestTimeout]

\* Faulty variant: the dispatch loop forgets the concurrency limit.
CapacityGateIgnoresRunning(q) == q.queue = <<>>
\* Faulty variant: the dispatch loop forgets the request interval.
RateGateNeverClosed(q) == FALSE

\* The two gates of processQueue.
CapacityGateClosed(q) == q.running >= cfg.maxConcurrency \/ q.queue = <<>>
RateGateClosed(q) == q.since < cfg.requestInterval

\* Faulty variant: the task submitted last is started first.
DispatchNewestFirst(q) ==
  LET t == q.queue[Len(q.queue)] IN
  StartExecute([q EXCEPT !.running = @ + 1,
                         !.queue = SubSeq(@, 1, Len(@) - 1),
                         !.since = 0,
                         !.lastGap = q.sinceDispatch,
                         !.sinceDispatch = 0], t)

\* this.running++; queue.shift(); lastRequestTime = Date.now(); then
\* executeWithRetry(task) runs up to its first await.
Dispatch(q) ==
  LET t == Head(q.queue) IN
  StartExecute([q EXCEPT !.running = @ + 1,
                         !.queue = Tail(@),
                         !.since = 0,
                         !.lastGap = q.sinceDispatch,
                         !.sinceDispatch = 0], t)

\* Faulty variant: a closed rate gate sets no timer.
ProcessQueueWithoutWakeUp(q) ==
  IF CapacityGateClosed(q) THEN q
  ELSE IF RateGateClosed(q) THEN q
       ELSE Dispatch(q)

\* processQueue, its synchronous part.
ProcessQueue(q) ==
  IF CapacityGateClosed(q) THEN q
  ELSE IF RateGateClosed(q)
       THEN [q EXCEPT !.rateTimers = @ (+) SetToBag({cfg.requestInterval - q.since})]
       ELSE Dispatch(q)

\* addTask: the task's record, pushed, then processQueue().
AddTaskTo(q, t, maxRetriesOption) ==
  ProcessQueue([q EXCEPT
    !.queue = Append(@, t),
    !.tasks[t] = [ st |-> "queued", given |-> maxRetriesOption,
                   maxRetries |-> OrDefault(maxRetriesOption, cfg.maxRetries),
                   retryCount |-> 0, calls |-> 0, timer |-> 0, error |-> NoError ]])

\* The task's retry limit as executeWithRetry reads it.
RetryLimit(q, t) == OrDefault(q.tasks[t].maxRetries, cfg.maxRetries)

\* Faulty variant: a task that is rejected takes the waiting tasks with it.
SettleCancelsWaitingOnFailure(q, t, st, error) ==
  LET q1 == [q EXCEPT !.tasks[t].st = st, !.tasks[t].error = error,
                      !.tasks[t].timer = 0, !.running = @ - 1]
  IN IF st = "rejected"
     THEN [q1 EXCEPT !.queue = <<>>,
                     !.tasks = [u \in TaskIds |->
                                  IF q1.tasks[u].st = "queued"
                                  THEN [q1.tasks[u] EXCEPT !.st = "rejected",
                                                           !.error = error]
                                  ELSE q1.tasks[u]]]
     ELSE ProcessQueue(q1)

\* The end of processQueue: task.resolve / task.reject, then finally
\* running-- and processQueue().
Settle(q, t, st, error) ==
  ProcessQueue([q EXCEPT !.tasks[t].st = st,
                         !.tasks[t].error = error,
                         !.tasks[t].timer = 0,
                         !.running = @ - 1])

\* Faulty variant: a task that waits for its retry gives its slot back.
FailAttemptFreesSlot(q, t, error) ==
  LET rc == q.tasks[t].retryCount IN
  IF ShouldRetry(error) /\ rc < RetryLimit(q, t)
  THEN ProcessQueue([q EXCEPT !.tasks[t].retryCount = rc + 1,
                              !.tasks[t].st = "backoff",
                              !.tasks[t].error = error,
                              !.tasks[t].timer = BackoffDelay(rc),
                              !.running = @ - 1])
  ELSE Settle(q, t, "rejected", error)

\* Faulty variant: a retry is not counted in task.retryCount.
FailAttemptForgetsRetryCount(q, t, error) ==
  LET rc == q.tasks[t].retryCount IN
  IF ShouldRetry(error) /\ rc < RetryLimit(q, t)
  THEN [q EXCEPT !.tasks[t].st = "backoff",
                 !.tasks[t].error = error,
                 !.tasks[t].timer = BackoffDelay(rc)]
  ELSE Settle(q, t, "rejected", error)

\* Faulty variant: every error is retried while the retry limit allows.
FailAttemptRetriesAnyError(q, t, error) ==
  LET rc == q.tasks[t].retryCount IN
  IF rc < RetryLimit(q, t)
  THEN [q EXCEPT !.tasks[t].retryCount = rc + 1,
                 !.tasks[t].st = "backoff",
                 !.tasks[t].error = error,
                 !.tasks[t].timer = BackoffDelay(rc)]
  ELSE Settle(q, t, "rejected", error)

\* The catch block of executeWithRetry.
FailAttempt(q, t, error) ==
  LET rc == q.tasks[t].retryCount IN
  IF ShouldRetry(error) /\ rc < RetryLimit(q, t)
  THEN [q EXCEPT !.tasks[t].retryCount = rc + 1,
                 !.tasks[t].st = "backoff",
                 !.tasks[t].error = error,
                 !.tasks[t].timer = BackoffDelay(rc)]
  ELSE Settle(q, t, "rejected", error)

\* Faulty variant: clear() also drops the tasks that are running.
ClearQueueAbortsRunning(q) ==
  [q EXCEPT !.queue = <<>>,
            !.running = 0,
            !.tasks = [t \in TaskIds |->
                         IF q.tasks[t].st \in {"queued", "executing", "backoff"}
                         THEN [q.tasks[t] EXCEPT !.st = "rejected",
                                                 !.error = QueueCleared,
                                                 !.timer = 0]
                         ELSE q.tasks[t]]]

\* Faulty variant: clear() rejects the waiting tasks and leaves them queued.
ClearQueueKeepsTasks(q) ==
  [q EXCEPT !.tasks = [t \in TaskIds |->
                        IF \E i \in 1..Len(q.queue) : q.queue[i] = t
                        THEN [q.tasks[t] EXCEPT !.st = "rejected", !.error = QueueCleared]
                        ELSE q.tasks[t]]]

\* clear(): every waiting task is rejected, the queue emptied.
ClearQueue(q) ==
  [q EXCEPT !.queue = <<>>,
            !.tasks = [t \in TaskIds |->
                        IF \E i \in 1..Len(q.queue) : q.queue[i] = t
                        THEN [q.tasks[t] EXCEPT !.st = "rejected", !.error = QueueCleared]
                        ELSE q.tasks[t]]]

\* d ms pass for the queue's clocks.
Elapse(q, d) ==
  LET Left(r) == Max(r - d, 0) IN
  [q EXCEPT !.since = Min(@ + d, cfg.requestInterval),
            !.sinceDispatch = Min(@ + d, cfg.requestInterval),
            !.rateTimers = BagOfAll(Left, @),
            !.tasks = [t \in TaskIds |-> [q.tasks[t] EXCEPT !.timer = Left(@)]]]

\* -------------------------------------------------- source values, filter
\* A record's field value: null / undefined, a string (a sequence of
\* characters) or a number.
NullValue == [kind |-> "null", s |-> <<>>, n |-> 0]
Str(s) == [kind |-> "str", s |-> s, n |-> 0]
Num(n) == [kind |-> "num", s |-> <<>>, n |-> n]

DigitChars == <<"0", "1", "2", "3", "4", "5", "6", "7", "8", "9">>
IsWhitespace(c) == c = " "

RECURSIVE Digits(_)
Digits(n) == IF n < 10 THEN <<DigitChars[n + 1]>>
             ELSE Digits(n \div 10) \o <<DigitChars[(n % 10) + 1]>>

\* String(fieldValue)
JsString(v) == IF v.kind = "num" THEN Digits(v.n) ELSE v.s

RECURSIVE TrimStart(_)
TrimStart(s) == IF s # <<>> /\ IsWhitespace(Head(s)) THEN TrimStart(Tail(s)) ELSE s
RECURSIVE TrimEnd(_)
TrimEnd(s) == IF s # <<>> /\ IsWhitespace(s[Len(s)])
              THEN TrimEnd(SubSeq(s, 1, Len(s) - 1)) ELSE s
\* text.trim()
Trim(s) == TrimEnd(TrimStart(s))

\* const text = fieldValue != null ? String(fieldValue) : ''
FieldText(v) == IF v.kind # "null" THEN JsString(v) ELSE <<>>

\* Faulty variant: the filter forgets to trim.
AcceptedWithoutTrim(v) == FieldText(v) # <<>>

\* The record passes `if (!text || text.trim().length === 0) continue`.
Accepted(v) == ~(FieldText(v) = <<>> \/ Len(Trim(FieldText(v))) = 0)

\* The first index >= i of an accepted record, Len(rs) + 1 when none is left.
RECURSIVE NextAccepted(_, _)
NextAccepted(rs, i) ==
  IF i > Len(rs) THEN Len(rs) + 1
  ELSE IF Accepted(rs[i]) THEN i ELSE NextAccepted(rs, i + 1)

\* ---------------------------------------------------------------- progress
\* progress is (a / b) * 100 for small integers a <= b: the model keeps the
\* fraction a / b in lowest terms, which is exact where the float is not.
RECURSIVE Gcd(_, _)
Gcd(a, b) == IF b = 0 THEN a ELSE Gcd(b, a % b)
Percent(a, b) == [num |-> a \div Gcd(a, b), den |-> b \div Gcd(a, b)]
Zero == Percent(0, 1)
Hundred == Percent(1, 1)
PercentLE(x, y) == x.num * y.den <= y.num * x.den

\* ---------------------------------------------------- useBaseCodeConversion
PState ==
  [ pc |-> pc, records |-> records, idx |-> idx, totalItems |-> totalItems, stats |-> stats,
    progress |-> progress, isConverting |-> isConverting,
    uploadTasks |-> uploadTasks, successfulUploads |-> successfulUploads,
    intervalActive |-> intervalActive,
    encoded |-> encoded, encodeFailures |-> encodeFailures,
    promise |-> promise, caught |-> caught, laterRuns |-> laterRuns ]

SetPState(p) ==
  /\ pc' = p.pc
  /\ records' = p.records
  /\ idx' = p.idx
  /\ totalItems' = p.totalItems
  /\ stats' = p.stats
  /\ progress' = p.progress
  /\ isConverting' = p.isConverting
  /\ uploadTasks' = p.uploadTasks
  /\ successfulUploads' = p.successfulUploads
  /\ intervalActive' = p.intervalActive
  /\ encoded' = p.encoded
  /\ encodeFailures' = p.encodeFailures
  /\ promise' = p.promise
  /\ caught' = p.caught
  /\ laterRuns' = p.laterRuns

ZeroStats == [success |-> 0, failed |-> 0, processing |-> 0]

\* Faulty variant: a settled item is counted but stays in processing.
UpdateStatsKeepsProcessing(p, type) ==
  [p EXCEPT !.stats =
     IF type = "success"
     THEN [@ EXCEPT !.success = @ + 1]
     ELSE [@ EXCEPT !.failed = @ + 1]]

\* Faulty variant: a failure is taken out of processing but not counted as failed.
UpdateStatsDropsFailures(p, type) ==
  [p EXCEPT !.stats =
     IF type = "success"
     THEN [@ EXCEPT !.success = @ + 1, !.processing = @ - 1]
     ELSE [@ EXCEPT !.processing = @ - 1]]

\* updateStats(type)
UpdateStats(p, type) ==
  [p EXCEPT !.stats =
     IF type = "success"
     THEN [@ EXCEPT !.success = @ + 1, !.processing = @ - 1]
     ELSE [@ EXCEPT !.failed = @ + 1, !.processing = @ - 1]]

\* The finally block of handleConvert; the promise of handleConvert resolves.
FinishRun(p) ==
  [p EXCEPT !.isConverting = FALSE, !.stats.processing = 0, !.pc = "done",
            !.promise = "resolved"]

IsSettled(q, t) == q.tasks[t].st \in {"resolved", "rejected"}
AllSettled(q, ts) == \A i \in 1..Len(ts) : IsSettled(q, ts[i])
SuccessCount(q, ts) == Cardinality({i \in 1..Len(ts) : q.tasks[ts[i]].st = "resolved"})

\* Faulty variant: the share of uploads that have not succeeded yet.
RemainingProgress(p) ==
  Percent(Len(p.uploadTasks) - p.successfulUploads, Len(p.uploadTasks))
\* Faulty variant: the share of accepted items that have settled, failures included.
SettledProgress(p) == Percent(p.stats.success + p.stats.failed, p.totalItems)

\* (successfulUploads / uploadTasks.length) * 100
SuccessProgress(p) == Percent(p.successfulUploads, Len(p.uploadTasks))

\* Faulty variant: the run always ends at 100.
FinalizeUploadsAtHundred(p) ==
  FinishRun([p EXCEPT !.intervalActive = FALSE, !.progress = Hundred])

\* After Promise.all(uploadPromises): clearInterval, the final progress, finally.
FinalizeUploads(p) ==
  FinishRun([p EXCEPT
    !.intervalActive = FALSE,
    !.progress = IF p.successfulUploads < Len(p.uploadTasks)
                 THEN SuccessProgress(p) ELSE Hundred])

\* After the for loop: the interval is set, the uploads that settled during
\* the loop are counted, and Promise.all is awaited.
EnterUploadPhase(q, p) ==
  IF Len(p.uploadTasks) > 0
  THEN LET p1 == [p EXCEPT !.successfulUploads = SuccessCount(q, p.uploadTasks),
                           !.intervalActive = TRUE]
       IN IF AllSettled(q, p.uploadTasks) THEN FinalizeUploads(p1)
          ELSE [p1 EXCEPT !.pc = "uploading"]
  ELSE FinishRun([p EXCEPT !.progress = Hundred])

\* The for loop from the next record up to its next await (generateCode) or
\* its end: the records that do not pass the filter are skipped.
ContinueLoop(q, p) ==
  LET k == NextAccepted(p.records, 1) IN
  IF k > Len(p.records)
  THEN EnterUploadPhase(q, [p EXCEPT !.records = <<>>, !.idx = @ + Len(p.records)])
  ELSE [p EXCEPT !.totalItems = @ + 1,
                 !.stats.processing = @ + 1,
                 !.encoded = @ \cup {p.idx + k},
                 !.idx = @ + k,
                 !.records = SubSeq(@, k + 1, Len(@)),
                 !.pc = "encoding"]

InUploadTasks(p, t) == \E i \in 1..Len(p.uploadTasks) : p.uploadTasks[i] = t

\* Faulty variant: a failed upload leaves handleConvert as an exception.
UploadSettledThrowsOnFailure(q, p, t, ok) ==
  IF ~InUploadTasks(p, t) THEN p
  ELSE IF ~ok
  THEN [UpdateStats(p, "failed") EXCEPT !.isConverting = FALSE,
                                        !.stats.processing = 0,
                                        !.intervalActive = FALSE,
                                        !.pc = "done", !.promise = "rejected"]
  ELSE LET p1 == UpdateStats(p, "success") IN
       IF p.pc = "uploading"
       THEN LET p2 == [p1 EXCEPT !.successfulUploads = @ + 1] IN
            IF AllSettled(q, p.uploadTasks) THEN FinalizeUploads(p2) ELSE p2
       ELSE p1

\* The continuation of uploadFile(...) once the task of record t settled in
\* queue state q: .then(updateStats), and, past the loop, the counting of
\* successfulUploads and the end of Promise.all.
UploadSettled(q, p, t, ok) ==
  IF ~InUploadTasks(p, t) THEN p
  ELSE LET p1 == UpdateStats(p, IF ok THEN "success" ELSE "failed") IN
       IF p.pc = "uploading"
       THEN LET p2 == [p1 EXCEPT !.successfulUploads = IF ok THEN @ + 1 ELSE @] IN
            IF AllSettled(q, p.uploadTasks) THEN FinalizeUploads(p2) ELSE p2
       ELSE p1

\* updateStats(type) once for each task of ts that is an upload of the run.
RECURSIVE UpdateStatsEach(_, _, _)
UpdateStatsEach(p, ts, type) ==
  IF ts = <<>> THEN p
  ELSE UpdateStatsEach(IF InUploadTasks(p, Head(ts)) THEN UpdateStats(p, type) ELSE p,
                       Tail(ts), type)

\* The continuations of uploadFile(...) for the tasks ts that clear() has
\* rejected, in queue state q: each catch of uploadFile and each
\* .then(updateStats) runs, then the awaits of uploadPromises, then the
\* end of Promise.all.
UploadsCleared(q, p, ts) ==
  LET p1 == UpdateStatsEach(p, ts, "failed") IN
  IF p.pc = "uploading" /\ AllSettled(q, p.uploadTasks)
  THEN FinalizeUploads(p1) ELSE p1

\* -------------------------------------------------------- what execute() throws
\* Errors an opaque task's execute() may reject with (SpecQueue).
OpaqueErrors == {HttpError(503), HttpError(400)}

\* Errors axios.post may reject with inside the task uploadFile builds.
AxiosErrors == {HttpError(400), HttpError(500), HttpError(503)}
\* Faulty variant: the missing token is reported as a connection failure.
TokenErrorAsConnectionReset ==
  [status |-> 0, code |-> "ECONNRESET",
   message |-> "Failed to obtain fresh authentication token for upload"]
\* executeWithFreshToken without a token.
TokenError ==
  [status |-> 0, code |-> "",
   message |-> "Failed to obtain fresh authentication token for upload"]
\* The catch block around axios.post: a 500 is rethrown as a new Error.
RethrownByUpload(e) ==
  IF e.status = 500
  THEN [status |-> 0, code |-> "", message |-> "Upload failed with 500 error"]
  ELSE e
UploadErrors == {RethrownByUpload(e) : e \in AxiosErrors} \cup {TokenError}

\* ------------------------------------------------------- useUploadToken
\* The token state of the page as one value.
TState == [authToken |-> authToken, requests |-> requests]

\* Call c of the execute() of task t has made its axios.post.
HasRequest(rs, t, c) == \E r \in rs : r.task = t /\ r.call = c

\* Faulty variant: the request is sent with the token stored by an earlier
\* fetch when there is one.
UploadWithCachedToken(ts, t, c, accessToken) ==
  LET token == IF ts.authToken # 0 THEN ts.authToken ELSE accessToken IN
  [ts EXCEPT !.authToken = token,
             !.requests = @ \cup {[task |-> t, call |-> c, token |-> token]}]

\* getFreshUploadToken after bridge.getSelfTempToken() answered accessToken:
\* setAuthToken(accessToken); then executeWithFreshToken calls
\* uploadFunction(freshToken), which posts with Bearer ${token}.
UploadWithFreshToken(ts, t, c, accessToken) ==
  [ts EXCEPT !.authToken = accessToken,
             !.requests = @ \cup {[task |-> t, call |-> c, token |-> accessToken]}]

\* ------------------------------------------------------------------ actions
\* An attempt's execute() resolves.
AttemptSucceeds(t) ==
  /\ tasks[t].st = "executing"
  /\ NoFault
  /\ LET q == Settle(QState, t, "resolved", NoError) IN
       /\ SetQState(q)
       /\ SetPState(UploadSettled(q, PState, t, TRUE))

\* An attempt's execute() rejects with e.
AttemptFails(t, e) ==
  /\ tasks[t].st = "executing"
  /\ OneFault
  /\ e \in (IF InUploadTasks(PState, t) THEN UploadErrors ELSE OpaqueErrors)
  /\ LET q == FailAttempt(QState, t, e) IN
       /\ SetQState(q)
       /\ SetPState(IF IsSettled(q, t) THEN UploadSettled(q, PState, t, FALSE)
                    ELSE PState)

\* The requestTimeout timer of the race fires before execute() settled.
\* The call of execute() that lost the race is not followed any further.
AttemptTimesOut(t) ==
  /\ tasks[t].st = "executing"
  /\ tasks[t].timer = 0
  /\ OneFault
  /\ LET q == FailAttempt(QState, t, TimeoutError) IN
       /\ SetQState(q)
       /\ SetPState(IF IsSettled(q, t) THEN UploadSettled(q, PState, t, FALSE)
                    ELSE PState)

\* The requestTimeout timer of the race fires before execute() settled, and
\* the call is followed: the race rejects, nothing cancels the call, which
\* goes on until it settles.
AttemptOutlastsTimeout(t) ==
  /\ tasks[t].st = "executing"
  /\ tasks[t].timer = 0
  /\ OneFault
  /\ LET q0 == [QState EXCEPT !.abandoned = @ \cup {<<t, tasks[t].calls>>}]
         q == FailAttempt(q0, t, TimeoutError)
     IN /\ SetQState(q)
        /\ SetPState(IF IsSettled(q, t) THEN UploadSettled(q, PState, t, FALSE)
                     ELSE PState)

\* A call of execute() that lost its race settles, either way: the promise
\* of the race is settled already and nothing reads the outcome.
AbandonedSettles(t, c) ==
  /\ <<t, c>> \in abandoned
  /\ SetQState([QState EXCEPT !.abandoned = @ \ {<<t, c>>}])
  /\ NoFault
  /\ UNCHANGED pvars

\* Faulty variant: a retry attempt is stamped as a request, like a dispatch.
RetryStartsAsRequest(t) ==
  /\ tasks[t].st = "backoff"
  /\ tasks[t].timer = 0
  /\ SetQState(StartExecute([QState EXCEPT !.retrySince = timeSinceLastRequest,
                                            !.since = 0], t))
  /\ NoFault
  /\ UNCHANGED pvars

\* The backoff timer fires: return this.executeWithRetry(task).
RetryStarts(t) ==
  /\ tasks[t].st = "backoff"
  /\ tasks[t].timer = 0
  /\ SetQState(StartExecute([QState EXCEPT !.retrySince = timeSinceLastRequest], t))
  /\ NoFault
  /\ UNCHANGED pvars

\* A setTimeout(() => this.processQueue(), waitTime) fires.
RateTimerFires ==
  /\ BagIn(0, rateTimers)
  /\ SetQState(ProcessQueue([QState EXCEPT !.rateTimers = @ (-) SetToBag({0})]))
  /\ NoFault
  /\ UNCHANGED pvars

\* The delays d > 0 after which something becomes due.
PendingDelays ==
  { r \in BagToSet(rateTimers) : r > 0 }
    \cup { tasks[t].timer : t \in { u \in TaskIds : tasks[u].timer > 0 } }
    \cup { r \in {cfg.requestInterval - timeSinceLastRequest} : r > 0 }

\* Time passes up to the next instant at which something becomes due; what
\* is due may still fire later, after further steps of time.
AdvanceSteps == { d \in PendingDelays : \A r \in PendingDelays : d <= r }

\* d ms pass.
Advance(d) ==
  /\ d \in AdvanceSteps
  /\ SetQState(Elapse(QState, d))
  /\ NoFault
  /\ UNCHANGED pvars

\* --- harness of SpecQueue: a caller of the UploadQueue class
TaskRetryOptions == {Undefined, 0, 1}

AddTask(t, maxRetriesOption) ==
  /\ tasks[t].st = "none"
  /\ t <= MaxTasks
  /\ \A u \in TaskIds : u < t => tasks[u].st # "none"
  /\ SetQState(AddTaskTo(QState, t, maxRetriesOption))
  /\ NoFault
  /\ UNCHANGED pvars

\* queue.clear() / clearQueue() with at least one task waiting, and the
\* continuations of the futures it rejects.
Clear ==
  /\ queue # <<>>
  /\ LET q == ClearQueue(QState) IN
       /\ SetQState(q)
       /\ SetPState(UploadsCleared(q, PState, queue))
  /\ NoFault

\* --- waitForCompletion
\* while (this.running > 0 || this.queue.length > 0)
Busy == running > 0 \/ Len(queue) > 0

\* A caller calls waitForCompletion(): the loop condition is read at once.
WaitForCompletion ==
  /\ waiter = "none"
  /\ waiter' = IF Busy THEN "polling" ELSE "resolved"
  /\ UNCHANGED <<cfg, queue, running, timeSinceLastRequest, rateTimers, tasks,
                 sinceDispatch, lastGap, retrySince, queueOptions, faults, abandoned,
                 bridge, issued, authToken, requests,
                 thrown, verdict>>
  /\ UNCHANGED pvars

\* Faulty variant: the loop looks at the queue only.
PollTickIgnoresRunning ==
  /\ waiter = "polling"
  /\ waiter' = IF Len(queue) > 0 THEN "polling" ELSE "resolved"
  /\ UNCHANGED <<cfg, queue, running, timeSinceLastRequest, rateTimers, tasks,
                 sinceDispatch, lastGap, retrySince, queueOptions, faults, abandoned,
                 bridge, issued, authToken, requests,
                 thrown, verdict>>
  /\ UNCHANGED pvars

\* The 100 ms timer of the loop fires and the condition is read again.  The
\* tick only samples the queue, so the model lets it come at any time.
PollTick ==
  /\ waiter = "polling"
  /\ waiter' = IF Busy THEN "polling" ELSE "resolved"
  /\ UNCHANGED <<cfg, queue, running, timeSinceLastRequest, rateTimers, tasks,
                 sinceDispatch, lastGap, retrySince, queueOptions, faults, abandoned,
                 bridge, issued, authToken, requests,
                 thrown, verdict>>
  /\ UNCHANGED pvars

\* --- handleConvert
SourceValues == {NullValue, Str(<<>>), Str(<<" ">>), Str(<<" ", "a">>), Num(0)}

RECURSIVE SeqsUpTo(_, _)
SeqsUpTo(S, n) ==
  IF n = 0 THEN {<<>>}
  ELSE LET shorter == SeqsUpTo(S, n - 1) IN
       shorter \cup {Append(s, x) : s \in {r \in shorter : Len(r) = n - 1}, x \in S}
RecordLists == SeqsUpTo(SourceValues, MaxRecords)

\* The user clicks convert: handleConvert up to await getRecords.
HandleConvert(valid) ==
  /\ pc = "idle"
  /\ SetPState(IF ~valid THEN PState
               ELSE [PState EXCEPT !.isConverting = TRUE,
                                   !.progress = Zero,
                                   !.stats = ZeroStats,
                                   !.promise = "pending",
                                   !.pc = "fetching"])
  /\ UNCHANGED qvars

\* handleConvert is called again while an earlier call has not returned (it
\* has no guard of its own): the React state is reset, and the new call
\* waits for getRecords.  The new call is not followed any further.
HandleConvertAgain ==
  /\ pc \in {"fetching", "fetched", "encoding", "uploading"}
  /\ laterRuns < MaxLaterRuns
  /\ SetPState([PState EXCEPT !.isConverting = TRUE,
                              !.progress = Zero,
                              !.stats = ZeroStats,
                              !.laterRuns = @ + 1])
  /\ UNCHANGED qvars

\* What getRecords rejects with when the data source cannot be reached.
FetchError == [status |-> 0, code |-> "ERR_NETWORK", message |-> "Network Error"]

\* Faulty variant: the error of getRecords leaves handleConvert.
FetchFailsAndRejects ==
  /\ pc = "fetching"
  /\ SetPState([PState EXCEPT !.isConverting = FALSE, !.stats.processing = 0,
                              !.pc = "done", !.promise = "rejected"])
  /\ UNCHANGED qvars

\* getRecords rejects: catch (the error is logged), finally.
FetchFails ==
  /\ pc = "fetching"
  /\ SetPState(FinishRun([PState EXCEPT !.caught = FetchError]))
  /\ UNCHANGED qvars

\* The data source answers getRecords with the record list rs.
FetchDone(rs) ==
  /\ pc = "fetching"
  /\ SetPState([PState EXCEPT !.records = rs, !.idx = 0, !.pc = "fetched"])
  /\ UNCHANGED qvars

\* handleConvert resumes after await getRecords: the early return on an
\* empty list, or setProgress(0) and the loop up to its first await.
LoopStarts ==
  /\ pc = "fetched"
  /\ SetPState(IF Len(records) = 0 THEN FinishRun(PState)
               ELSE ContinueLoop(QState, [PState EXCEPT !.progress = Zero]))
  /\ UNCHANGED qvars

EncodeResults == {"ok", "unsuccessful", "noblob", "throw"}

\* Faulty variant: a result without a blob is uploaded all the same.
EncodeDoneUploadsWithoutBlob(res) ==
  /\ pc = "encoding"
  /\ LET p0 == [PState EXCEPT !.encodeFailures =
                                IF res = "ok" THEN @ ELSE @ \cup {idx}]
     IN IF res \in {"ok", "noblob"}
        THEN LET q == AddTaskTo(QState, idx, UploadMaxRetries)
                 p == [p0 EXCEPT !.uploadTasks = Append(@, idx)]
             IN /\ SetQState(q)
                /\ NoFault
                /\ SetPState(ContinueLoop(q, p))
        ELSE /\ SetPState(ContinueLoop(QState, UpdateStats(p0, "failed")))
             /\ UNCHANGED qvars

\* generateCode settles for record idx with res: a successful result with a
\* blob ("ok"), success false, no blob, or an exception.  The loop goes on
\* to its next await.
EncodeDone(res) ==
  /\ pc = "encoding"
  /\ LET p0 == [PState EXCEPT !.encodeFailures =
                                IF res = "ok" THEN @ ELSE @ \cup {idx}]
     IN IF res = "ok"
        THEN LET q == AddTaskTo(QState, idx, UploadMaxRetries)
                 p == [p0 EXCEPT !.uploadTasks = Append(@, idx)]
             IN /\ SetQState(q)
                /\ NoFault
                /\ SetPState(ContinueLoop(q, p))
        ELSE /\ SetPState(ContinueLoop(QState, UpdateStats(p0, "failed")))
             /\ UNCHANGED qvars

\* A tick of uploadProgressInterval (every 500 ms while it is set).  A tick
\* only samples successfulUploads, and an upload may settle at any time, so
\* the model lets a tick come at any time while the interval is set.
IntervalTick ==
  /\ intervalActive
  /\ SetPState(
       IF successfulUploads = Len(uploadTasks)
       THEN [PState EXCEPT !.progress = Hundred, !.intervalActive = FALSE]
       ELSE [PState EXCEPT !.progress = SuccessProgress(PState)])
  /\ UNCHANGED qvars

\* ----------------------------------------------------------- specifications
InitPipeline ==
  /\ pc = "idle"
  /\ records = <<>>
  /\ idx = 0
  /\ totalItems = 0
  /\ stats = ZeroStats
  /\ progress = Zero
  /\ isConverting = FALSE
  /\ uploadTasks = <<>>
  /\ successfulUploads = 0
  /\ intervalActive = FALSE
  /\ encoded = {}
  /\ encodeFailures = {}
  /\ promise = "none"
  /\ caught = NoError
  /\ laterRuns = 0

InitQueue(options) ==
  /\ queueOptions = options
  /\ cfg = QueueConfig(options)
  /\ queue = <<>>
  /\ running = 0
  /\ timeSinceLastRequest = QueueConfig(options).requestInterval
  /\ rateTimers = EmptyBag
  /\ tasks = [t \in TaskIds |-> NoTask]
  /\ faults = 0
  /\ sinceDispatch = QueueConfig(options).requestInterval
  /\ lastGap = QueueConfig(options).requestInterval
  /\ retrySince = QueueConfig(options).requestInterval
  /\ waiter = "none"
  /\ abandoned = {}

\* useUploadToken before any upload: no token was asked for.
InitTokens(hasBridge) ==
  /\ bridge = hasBridge
  /\ issued = 0
  /\ authToken = 0
  /\ requests = {}

\* shouldRetry has not been asked about the error e.
InitClassifier(e) ==
  /\ thrown = e
  /\ verdict = "none"

\* The plugin: handleConvert over the exported defaultUploadQueue.
Init ==
  /\ InitQueue(DefaultQueueOptions)
  /\ InitPipeline
  /\ InitTokens(TRUE)
  /\ InitClassifier(NoError)

QueueSteps ==
  \/ \E t \in TaskIds : AttemptSucceeds(t)
  \/ \E t \in TaskIds : \E e \in OpaqueErrors \cup UploadErrors : AttemptFails(t, e)
  \/ \E t \in TaskIds : AttemptTimesOut(t)
  \/ \E t \in TaskIds : RetryStarts(t)
  \/ RateTimerFires
  \/ \E d \in AdvanceSteps : Advance(d)

Next ==
  \/ QueueSteps
  \/ \E valid \in BOOLEAN : HandleConvert(valid)
  \/ FetchFails
  \/ \E rs \in RecordLists : FetchDone(rs)
  \/ LoopStarts
  \/ \E res \in EncodeResults : EncodeDone(res)
  \/ IntervalTick

Spec == Init /\ [][Next]_vars

\* The UploadQueue class on its own, driven by a caller that submits opaque
\* tasks and may clear the queue.
QueueOptionChoices ==
  { [maxConcurrency |-> 1, requestInterval |-> 150, maxRetries |-> 0,
     requestTimeout |-> Undefined],
    [maxConcurrency |-> 2, requestInterval |-> 150, maxRetries |-> 1,
     requestTimeout |-> Undefined] }

InitQ ==
  /\ \E options \in QueueOptionChoices : InitQueue(options)
  /\ InitPipeline
  /\ InitTokens(TRUE)
  /\ InitClassifier(NoError)

NextQ ==
  \/ QueueSteps
  \/ \E t \in TaskIds : \E o \in TaskRetryOptions : AddTask(t, o)
  \/ Clear

SpecQueue == InitQ /\ [][NextQ]_vars

\* The UploadQueue class with a caller that also waits for completion.  The
\* timer of the polling loop fires eventually.
DrainQueueOptions ==
  [maxConcurrency |-> 2, requestInterval |-> 150, maxRetries |-> 1,
   requestTimeout |-> Undefined]
InitDrain ==
  /\ InitQueue(DrainQueueOptions)
  /\ InitPipeline
  /\ InitTokens(TRUE)
  /\ InitClassifier(NoError)
NextDrain ==
  \/ QueueSteps
  \/ \E t \in TaskIds : AddTask(t, Undefined)
  \/ Clear
  \/ WaitForCompletion
  \/ PollTick
SpecDrain == InitDrain /\ [][NextDrain]_vars /\ WF_vars(PollTick)

\* The same caller, with an event loop in which every timer that is due
\* fires, time goes on, and every call of execute() settles or meets its
\* timeout.
AttemptEnds(t) ==
  \/ AttemptSucceeds(t)
  \/ \E e \in OpaqueErrors : AttemptFails(t, e)
  \/ AttemptTimesOut(t)

LiveQueue ==
  /\ WF_vars(RateTimerFires)
  /\ WF_vars(\E d \in AdvanceSteps : Advance(d))
  /\ \A t \in 1..MaxTasks : WF_vars(RetryStarts(t))
  /\ \A t \in 1..MaxTasks : WF_vars(AttemptEnds(t))
SpecLive == InitDrain /\ [][NextDrain]_vars /\ LiveQueue

\* The plugin over record lists long enough for two uploads to wait in the
\* queue at the same time.
OrderValues == {NullValue, Str(<<" ", "a">>)}
OrderRecordLists == SeqsUpTo(OrderValues, MaxOrderRecords)
NextOrder ==
  \/ QueueSteps
  \/ \E valid \in BOOLEAN : HandleConvert(valid)
  \/ FetchFails
  \/ \E rs \in OrderRecordLists : FetchDone(rs)
  \/ LoopStarts
  \/ \E res \in EncodeResults : EncodeDone(res)
  \/ IntervalTick
SpecOrder == Init /\ [][NextOrder]_vars

\* The UploadQueue class with a high retry limit and tasks whose execute()
\* may answer 503 every time: the retry limit alone bounds the failures.
AttemptRejects(t) ==
  /\ tasks[t].st = "executing"
  /\ SetQState(FailAttempt(QState, t, HttpError(503)))
  /\ NoFault
  /\ UNCHANGED pvars

BackoffQueueOptions ==
  [maxConcurrency |-> 2, requestInterval |-> 150,
   maxRetries |-> MaxBackoffRetries, requestTimeout |-> Undefined]
InitBackoff ==
  /\ InitQueue(BackoffQueueOptions)
  /\ InitPipeline
  /\ InitTokens(TRUE)
  /\ InitClassifier(NoError)
NextBackoff ==
  \/ \E t \in TaskIds : AddTask(t, Undefined)
  \/ \E t \in TaskIds : AttemptSucceeds(t)
  \/ \E t \in TaskIds : AttemptRejects(t)
  \/ \E t \in TaskIds : RetryStarts(t)
  \/ RateTimerFires
  \/ \E d \in AdvanceSteps : Advance(d)
SpecBackoff == InitBackoff /\ [][NextBackoff]_vars

\* The UploadQueue class with the calls of execute() followed past their
\* timeout.
NextPending ==
  \/ \E t \in TaskIds : AddTask(t, Undefined)
  \/ Clear
  \/ \E t \in TaskIds : AttemptSucceeds(t)
  \/ \E t \in TaskIds : \E e \in OpaqueErrors : AttemptFails(t, e)
  \/ \E t \in TaskIds : AttemptOutlastsTimeout(t)
  \/ \E t \in TaskIds : \E c \in 1..(MaxFaults + 1) : AbandonedSettles(t, c)
  \/ \E t \in TaskIds : RetryStarts(t)
  \/ RateTimerFires
  \/ \E d \in AdvanceSteps : Advance(d)
SpecPending == InitQ /\ [][NextPending]_vars

\* The plugin with the execute() of an upload task in its two steps: the
\* token is asked of the bridge, then the file is posted.
\* The running call of execute() of task t waits for its token.
AwaitsToken(t) ==
  tasks[t].st = "executing" /\ ~HasRequest(requests, t, tasks[t].calls)

\* bridge.getSelfTempToken() answers the running call of task t; the bridge
\* hands out a token it has not handed out before.
TokenGranted(t) ==
  /\ AwaitsToken(t)
  /\ bridge
  /\ issued' = issued + 1
  /\ LET ts == UploadWithFreshToken(TState, t, tasks[t].calls, issued + 1) IN
       /\ authToken' = ts.authToken
       /\ requests' = ts.requests
  /\ UNCHANGED <<cfg, queue, running, timeSinceLastRequest, rateTimers, tasks,
                 sinceDispatch, lastGap, retrySince, queueOptions, faults, waiter,
                 abandoned, bridge, thrown, verdict>>
  /\ UNCHANGED pvars

\* The running call of task t gets no token: there is no bridge, or
\* getSelfTempToken() rejects.  getFreshUploadToken returns null and
\* executeWithFreshToken throws before uploadFunction is called.
TokenDenied(t) ==
  /\ AwaitsToken(t)
  /\ IF bridge THEN OneFault ELSE NoFault
  /\ LET q == FailAttempt(QState, t, TokenError) IN
       /\ SetQState(q)
       /\ SetPState(IF IsSettled(q, t) THEN UploadSettled(q, PState, t, FALSE)
                    ELSE PState)

\* Without a bridge getFreshUploadToken returns null without waiting for
\* anything, and execute() rejects in the microtasks of its own call: the
\* rejection is due before any time passes.
DenialDue == ~bridge /\ \E t \in TaskIds : AwaitsToken(t)

\* The axios.post of the running call of task t is answered.
UploadSucceeds(t) ==
  /\ HasRequest(requests, t, tasks[t].calls)
  /\ AttemptSucceeds(t)

\* The axios.post of the running call of task t fails with e.
UploadFails(t, e) ==
  /\ HasRequest(requests, t, tasks[t].calls)
  /\ e \in {RethrownByUpload(a) : a \in AxiosErrors}
  /\ AttemptFails(t, e)

TokenRecordLists == SeqsUpTo(OrderValues, MaxRecords)

InitToken ==
  /\ InitQueue(DefaultQueueOptions)
  /\ InitPipeline
  /\ \E hasBridge \in BOOLEAN : InitTokens(hasBridge)
  /\ InitClassifier(NoError)

NextToken ==
  \/ \E t \in TaskIds : TokenGranted(t)
  \/ \E t \in TaskIds : TokenDenied(t)
  \/ \E t \in TaskIds : UploadSucceeds(t)
  \/ \E t \in TaskIds : \E e \in UploadErrors : UploadFails(t, e)
  \/ \E t \in TaskIds : AttemptTimesOut(t)
  \/ \E t \in TaskIds : RetryStarts(t)
  \/ RateTimerFires
  \/ \E d \in AdvanceSteps : ~DenialDue /\ Advance(d)
  \/ \E valid \in BOOLEAN : HandleConvert(valid)
  \/ FetchFails
  \/ \E rs \in TokenRecordLists : FetchDone(rs)
  \/ LoopStarts
  \/ \E res \in EncodeResults : EncodeDone(res)
  \/ IntervalTick
SpecToken == InitToken /\ [][NextToken]_vars

\* shouldRetry on its own, asked about one error object.
\* error.response?.status (0: the error has no response).
ErrorStatuses == {0, 400, 401, 404, 408, 422, 429, 500, 501, 502, 503, 504}
\* error.code ("": none).
ErrorCodes ==
  {"", "NETWORK_ERROR", "ECONNRESET", "ECONNABORTED", "ERR_BAD_REQUEST",
   "ERR_BAD_RESPONSE", "ERR_CANCELED"}
\* error.message.
ErrorMessages ==
  {"", "Request timeout", "Request failed", "Queue cleared",
   "Upload failed with 500 error", "Validation failed",
   "Failed to obtain fresh authentication token for upload"}
ErrorInputs ==
  {[status |-> st, code |-> c, message |-> m] :
     st \in ErrorStatuses, c \in ErrorCodes, m \in ErrorMessages}

Classify ==
  /\ verdict = "none"
  /\ verdict' = IF ShouldRetry(thrown) THEN "retryable" ELSE "fatal"
  /\ UNCHANGED <<cfg, queue, running, timeSinceLastRequest, rateTimers, tasks,
                 sinceDispatch, lastGap, retrySince, queueOptions, faults, waiter,
                 abandoned, bridge, issued, authToken, requests, thrown>>
  /\ UNCHANGED pvars

InitClassify ==
  /\ InitQueue(DefaultQueueOptions)
  /\ InitPipeline
  /\ InitTokens(TRUE)
  /\ \E e \in ErrorInputs : InitClassifier(e)
NextClassify == Classify
SpecClassify == InitClassify /\ [][NextClassify]_vars

\* The hook with a caller that may call handleConvert again during a run.
NextReentry == Next \/ HandleConvertAgain
SpecReentry == Init /\ [][NextReentry]_vars

\* The plugin with a caller of clearQueue(), which useEnhancedUpload exports.
NextCancel == Next \/ Clear
SpecCancel == Init /\ [][NextCancel]_vars

\* ==================================================================== claims
Dispatched == {t \in TaskIds : tasks[t].calls >= 1}
Rejected(t) == tasks[t].st = "rejected"
Resolved(t) == tasks[t].st = "resolved"
UploadIds == {uploadTasks[i] : i \in 1..Len(uploadTasks)}

\* --- C1
\* C1: in every reachable state of the queue, whatever the sequence of
\* addTask, timer wake-ups, completions, retries and clear(), the running
\* counter stays within 0 .. maxConcurrency.
C1_RunningWithinCapacity == 0 <= running /\ running <= cfg.maxConcurrency

\* The limit binds: every slot is taken while a task waits in the queue.
C1_Witness == running = cfg.maxConcurrency /\ queue # <<>>

\* --- C2
\* C2: the time between two consecutive initial dispatches (a task shifted
\* off the queue and started for the first time) is at least requestInterval.
C2_DispatchGapAtLeastInterval == lastGap >= cfg.requestInterval

\* Two tasks were dispatched, the second one by a rate-gate timer or a
\* completion after the first one's slot in time had passed.
C2_Witness == Cardinality(Dispatched) >= 2

\* --- C3
\* The retry limit a task was submitted with: its own maxRetries when one
\* was given (0 included), the queue's otherwise.
RequestedRetries(t) ==
  IF tasks[t].given # Undefined THEN tasks[t].given ELSE cfg.maxRetries

\* C3: a task submitted with retry limit maxRetries >= 0 whose execute() failed
\* with a retryable error on every attempt was attempted exactly
\* maxRetries + 1 times when its future rejects.
C3_AttemptsAreRetriesPlusOne ==
  \A t \in TaskIds :
    (Rejected(t) /\ tasks[t].calls >= 1 /\ ShouldRetry(tasks[t].error))
      => tasks[t].calls = RequestedRetries(t) + 1

\* --- C4
\* Items of the run that ended in failure: the encoder failed, or the
\* upload task was rejected.
EncoderFailedItems == {j \in encoded : j \notin UploadIds /\ ~(pc = "encoding" /\ j = idx)}
FailedItems == EncoderFailedItems \cup {t \in UploadIds : Rejected(t)}
SucceededItems == {t \in UploadIds : Resolved(t)}

\* C4: a fatal (non-retryable) error ends the task at once: the task is
\* rejected with no backoff wait and no further call of execute(), so a task
\* whose first attempt fails so has execute() called exactly once, and the
\* pipeline counts the item as failed.
FatalError(e) == e # NoError /\ e # QueueCleared /\ ~ShouldRetry(e)

C4_FatalErrorAttemptedOnce ==
  /\ \A t \in TaskIds :
       FatalError(tasks[t].error) =>
         /\ Rejected(t)
         /\ tasks[t].calls = tasks[t].retryCount + 1
         /\ tasks[t].timer = 0
  /\ stats.failed = Cardinality(FailedItems)

\* An upload rejected with a 400 after one call, counted as failed.
C4_Witness ==
  \E t \in UploadIds :
    /\ Rejected(t) /\ tasks[t].error = HttpError(400)
    /\ tasks[t].calls = 1 /\ tasks[t].retryCount = 0
    /\ stats.failed >= 1

\* --- C5
\* C5: when handleConvert resolves, success + failed equals the number of
\* accepted items and processing is 0, whatever failed and in whatever
\* order the uploads completed.
C5_FinalStatsAddUp ==
  pc = "done" => /\ stats.success + stats.failed = totalItems
                 /\ stats.processing = 0

\* A run that ended with one success and one failure.
C5_Witness == pc = "done" /\ stats.success = 1 /\ stats.failed = 1 /\ totalItems = 2

\* --- C6
\* The share of the submitted uploads that succeeded, read off the tasks.
UploadSuccessShare == Percent(Cardinality(SucceededItems), Len(uploadTasks))

\* C6 as stated: when handleConvert resolves with every accepted item
\* settled, progress is exactly 100, also when some uploads failed for good.
C6_ProgressHundredAtResolution ==
  (pc = "done" /\ totalItems >= 1 /\ stats.success + stats.failed = totalItems)
    => progress = Hundred

\* C6 as the code has it: when handleConvert resolves, progress is the share
\* of the submitted uploads that succeeded; it is 100 when items were read
\* and no upload was submitted, and 0 when no record was read.
C6_ProgressAtResolution ==
  pc = "done" =>
    progress = IF idx = 0 THEN Zero
               ELSE IF Len(uploadTasks) = 0 THEN Hundred
               ELSE UploadSuccessShare

\* A run ended at 50: one upload succeeded, the other was rejected.
C6_Witness ==
  /\ pc = "done" /\ Len(uploadTasks) = 2
  /\ Cardinality(SucceededItems) = 1
  /\ progress = Percent(1, 2)

\* --- C7
\* C7: within a run every published progress value lies in [0, 100] and no
\* step lowers progress.
C7_ProgressMonotone ==
  [][/\ PercentLE(progress, progress')
     /\ PercentLE(Zero, progress')
     /\ PercentLE(progress', Hundred)]_vars

\* A run that went from 0 to 100 over two successful uploads.
C7_Witness == pc = "done" /\ stats.success = 2 /\ progress = Hundred

\* --- C8
SettledCount == stats.success + stats.failed

InFlightItems == encoded \ (FailedItems \cup SucceededItems)

\* C9: at every state of a run success + failed + processing is the number
\* of items accepted so far, and each counter is the number of accepted
\* items in that condition: no update is lost or applied twice.
C9_StatsPartitionAccepted ==
  /\ stats.success + stats.failed + stats.processing = totalItems
  /\ stats.success = Cardinality(SucceededItems)
  /\ stats.processing = Cardinality(InFlightItems)
  /\ FailedItems \cap SucceededItems = {}

\* An upload completed while the loop was still encoding a later record.
C9_Witness == pc = "encoding" /\ stats.success = 1 /\ stats.processing = 1

\* --- C10
\* null / absent, or nothing but whitespace.
Blank(v) ==
  \/ v.kind = "null"
  \/ v.kind = "str" /\ \A i \in 1..Len(v.s) : IsWhitespace(v.s[i])

\* C10: the loop passes exactly the records that are not blank on to the
\* encoder; only those are counted in totalItems and the stats, and only
\* those can have an upload task.
C10_BlankRecordsExcluded ==
  [][/\ \A k \in 1..(Len(records) - Len(records')) :
          ((idx + k) \in encoded') <=> ~Blank(records[k])
     /\ totalItems' = Cardinality(encoded')
     /\ stats'.success + stats'.failed + stats'.processing <= Cardinality(encoded')
     /\ \A j \in TaskIds : j \notin encoded' => tasks'[j].st = "none"]_vars

\* A run over two records of which one was excluded.
C10_Witness == pc = "done" /\ idx = 2 /\ totalItems = 1 /\ stats.success = 1

\* --- C11
QueuedIds == {queue[i] : i \in 1..Len(queue)}
RejectedUploads == {t \in UploadIds : Rejected(t)}

\* C11: an item the encoder failed for (unsuccessful result, no blob, or an
\* exception) is counted as failed from the step in which the encoder
\* failed on, and no task is ever submitted to the queue for it: it is in no
\* upload list and not queued, and execute() is never called for it.
C11_EncoderFailureIsFinal ==
  /\ \A j \in encodeFailures :
       /\ tasks[j] = NoTask
       /\ j \notin UploadIds
       /\ j \notin QueuedIds
  /\ stats.failed = Cardinality(encodeFailures) + Cardinality(RejectedUploads)
  /\ stats.processing = Cardinality(encoded \ (encodeFailures \cup UploadIds))
                          + Cardinality({t \in UploadIds : ~IsSettled(QState, t)})

\* The encoder has just failed for the first item while the loop goes on
\* with the second one.
C11_Witness ==
  /\ pc = "encoding" /\ idx = 2 /\ encodeFailures = {1}
  /\ stats.failed = 1 /\ stats.processing = 1

\* --- C12
\* Task t is rejected in this step after an attempt of its own failed.
FailsNow(t) == tasks[t].st = "executing" /\ tasks'[t].st = "rejected"

\* Task u after the step is what it was before, or it was waiting and has
\* been dispatched.
LeftAlone(u) ==
  \/ tasks'[u] = tasks[u]
  \/ /\ tasks[u].st = "queued"
     /\ tasks'[u] = [tasks[u] EXCEPT !.st = "executing", !.calls = @ + 1,
                                      !.timer = cfg.requestTimeout]

\* C12: a step in which a task fails for good leaves every other task as it
\* was (or dispatches it), and removes nothing from the queue but a task it
\* dispatches; a step in which an item is counted as failed takes no other
\* item back; and a run that has read its records ends only when every
\* record was visited and every accepted item is settled.
C12_FailureIsolation ==
  [][/\ \A t \in TaskIds : FailsNow(t) =>
          /\ \A u \in TaskIds \ {t} : LeftAlone(u)
          /\ queue' = queue \/ queue' = Tail(queue)
     /\ stats'.failed > stats.failed =>
          /\ stats'.success = stats.success
          /\ encoded \subseteq encoded'
          /\ Len(uploadTasks) <= Len(uploadTasks')
          /\ SubSeq(uploadTasks', 1, Len(uploadTasks)) = uploadTasks
     /\ (pc' = "done" /\ caught' = NoError) =>
          /\ records' = <<>>
          /\ \A j \in encoded' :
               j \in encodeFailures' \/ tasks'[j].st \in {"resolved", "rejected"}]_vars

\* The first upload was rejected; the second one, which was waiting or
\* running at that time, went on and succeeded.
C12_Witness ==
  /\ Len(uploadTasks) = 2
  /\ Rejected(1) /\ Resolved(2)
  /\ stats.failed = 1 /\ stats.success = 1

\* --- C13
\* handleConvert ends in this step because getRecords failed.
FetchFailsNow == pc = "fetching" /\ pc' = "done"

\* C13 as stated: when the record list cannot be fetched, the promise of
\* handleConvert rejects.
C13_FetchFailureRejects == [][FetchFailsNow => promise' = "rejected"]_vars

\* C13 as the code has it: when the record list cannot be fetched, the catch
\* block takes the error and the promise of handleConvert resolves, with
\* isConverting false, progress 0 and all counters 0; no item was processed.
C13_FetchFailureResolves ==
  [][FetchFailsNow =>
       /\ promise' = "resolved"
       /\ caught' = FetchError
       /\ ~isConverting'
       /\ progress' = Zero /\ stats' = ZeroStats
       /\ totalItems' = 0 /\ encoded' = {} /\ uploadTasks' = <<>>
       /\ tasks' = tasks]_vars

\* The run ended on a fetch failure.
C13_Witness == pc = "done" /\ caught = FetchError /\ promise = "resolved"

\* --- C14
\* C14: no per-item error makes handleConvert reject.  The promise is never
\* rejected; every failed item (encoder failure, or an upload rejected for a
\* fatal error, exhausted retries, a timeout, a missing token or a cleared
\* queue) is counted in stats.failed; the run waits for no upload that has
\* settled; and a finished run has resolved.
C14_ItemErrorsNeverReject ==
  /\ promise # "rejected"
  /\ stats.failed = Cardinality(encodeFailures) + Cardinality(RejectedUploads)
  /\ pc = "uploading" => ~AllSettled(QState, uploadTasks)
  /\ pc = "done" => promise = "resolved"

\* A run resolved after one upload was rejected by clear() and counted.
C14_Witness ==
  /\ pc = "done" /\ promise = "resolved"
  /\ \E t \in UploadIds : Rejected(t) /\ tasks[t].error = QueueCleared
  /\ stats.failed >= 1

\* --- C15
\* clear() rejects a waiting task in this step.
ClearsNow == \E t \in TaskIds : tasks[t].st = "queued" /\ tasks'[t].st = "rejected"

\* C15: clear() rejects every task that is waiting in the queue, none of
\* which was ever started, with the error 'Queue cleared' and leaves the queue
\* empty; it changes neither running nor any task that is not waiting, so a
\* running task goes on to its own outcome, and it takes no success back.
C15_ClearRejectsOnlyWaiting ==
  [][ClearsNow =>
       /\ queue' = <<>>
       /\ running' = running
       /\ \A t \in TaskIds :
            IF tasks[t].st = "queued"
            THEN /\ tasks[t].calls = 0
                 /\ tasks'[t] = [tasks[t] EXCEPT !.st = "rejected",
                                                  !.error = QueueCleared]
            ELSE tasks'[t] = tasks[t]
       /\ stats'.success = stats.success
       /\ successfulUploads' = successfulUploads]_vars

\* clear() has rejected the second upload, which was waiting; the first one,
\* which was retried, succeeded.
C15_Witness ==
  /\ Len(uploadTasks) = 2
  /\ Rejected(2) /\ tasks[2].error = QueueCleared /\ tasks[2].calls = 0
  /\ Resolved(1) /\ tasks[1].retryCount = 1 /\ running = 0

\* --- C16
\* C16: waitForCompletion() resolves only in a step in which the queue is
\* empty and running is 0; and a call that is polling while nothing is
\* queued or running resolves, unless a further task is submitted first.
C16_DrainResolvesWhenIdle ==
  /\ [][(waiter # "resolved" /\ waiter' = "resolved")
          => (queue = <<>> /\ running = 0 /\ queue' = <<>> /\ running' = 0)]_vars
  /\ (waiter = "polling" /\ ~Busy) ~> (waiter = "resolved" \/ Busy)

\* A call that had to poll has resolved after two tasks settled.
C16_Witness ==
  /\ waiter = "resolved"
  /\ \A t \in 1..2 : IsSettled(QState, t)
  /\ \E t \in 1..2 : Rejected(t) /\ tasks[t].calls >= 2

\* --- C17
\* C17: upload tasks are submitted in record order, wait in the queue in
\* that order, and are first started in that order: whenever an upload has
\* been started, every upload of an earlier record has been started too.
C17_DispatchIsFifo ==
  /\ \A i, j \in 1..Len(uploadTasks) : i < j => uploadTasks[i] < uploadTasks[j]
  /\ \A i, j \in 1..Len(queue) : i < j => queue[i] < queue[j]
  /\ \A t, u \in UploadIds :
       (t < u /\ tasks[u].calls >= 1) => tasks[t].calls >= 1
  /\ \A t \in UploadIds, u \in QueuedIds : tasks[t].st = "queued" \/ t < u

\* Of two uploads that waited in the queue, the earlier one has been
\* started and the later one still waits.
C17_Witness ==
  /\ Len(uploadTasks) = 3
  /\ tasks[uploadTasks[1]].calls >= 1
  /\ tasks[uploadTasks[2]].st = "executing" /\ tasks[uploadTasks[2]].calls = 1
  /\ queue = <<uploadTasks[3]>>

\* --- C18
\* A failure of the HTTP request that is transient: a 500, 502, 503 or 504
\* response, a connection reset, or a timeout.
Transient(e) ==
  \/ e.status \in {500, 502, 503, 504}
  \/ e.code \in {"ECONNRESET", "ECONNABORTED"}

\* C18: whenever the request of an upload task fails with a transient
\* failure, the error the queue catches is one it retries: the task waits
\* for a retry or runs again, or it was rejected with its retries used up.
C18_TransientUploadFailuresRetried ==
  \A t \in UploadIds : \A e \in AxiosErrors :
    (Transient(e) /\ tasks[t].error = RethrownByUpload(e)) =>
      \/ tasks[t].st \in {"backoff", "executing"}
      \/ Rejected(t) /\ tasks[t].retryCount = UploadMaxRetries

\* --- C19
\* C19: an upload that succeeds after k attempts failed with a retryable
\* error (k at most the retry limit) resolves after exactly k + 1 calls of
\* execute(), and the item is counted as a success and not as a failure.
C19_RetriedSuccessCounts ==
  /\ \A t \in UploadIds :
       Resolved(t) =>
         /\ tasks[t].calls = tasks[t].retryCount + 1
         /\ tasks[t].retryCount <= UploadMaxRetries
         /\ tasks[t].error = NoError
         /\ t \notin FailedItems
  /\ stats.success = Cardinality({t \in UploadIds : Resolved(t)})
  /\ stats.failed = Cardinality(encoded) - stats.processing - stats.success

\* Two 503 answers, then success at the third call.
C19_Witness ==
  \E t \in UploadIds :
    /\ Resolved(t) /\ tasks[t].retryCount = 2 /\ tasks[t].calls = 3
    /\ stats.success >= 1 /\ stats.failed = 0

\* --- C20
\* The delays of the claim, by the number of retries already made.
DelayTable(attempt) ==
  CASE attempt = 0 -> 1000
    [] attempt = 1 -> 2000
    [] attempt = 2 -> 4000
    [] attempt = 3 -> 8000
    [] OTHER -> 10000

\* C20: when an attempt fails and the task is retried, the retry timer is
\* set to 1000, 2000, 4000, 8000 ms for the first four retries and to 10000
\* ms for every later one, and the next attempt starts only when that time
\* has passed.
C20_BackoffDelays ==
  [][\A t \in TaskIds :
       /\ tasks'[t].retryCount # tasks[t].retryCount =>
            /\ tasks'[t].retryCount = tasks[t].retryCount + 1
            /\ tasks'[t].st = "backoff"
            /\ tasks'[t].timer = DelayTable(tasks[t].retryCount)
       /\ (tasks[t].st = "backoff" /\ tasks'[t].st # "backoff") =>
            /\ tasks[t].timer = 0
            /\ tasks'[t].st = "executing"
       /\ (tasks[t].st = "backoff" /\ tasks'[t].st = "backoff") =>
            tasks'[t].timer <= tasks[t].timer]_vars

\* The sixth retry of a task waits 10000 ms, as the fifth did.
C20_Witness ==
  \E t \in TaskIds :
    /\ tasks[t].st = "backoff" /\ tasks[t].retryCount = 6
    /\ tasks[t].timer = 10000 /\ tasks[t].calls = 6

\* --- C21
\* C21: every axios.post of an upload task, a retry included, carries a token
\* that was asked of the bridge by that same call of execute(): the token is
\* the one the bridge answered with in the step the request was made, each
\* fetch is followed by exactly one request, and no two requests (of two
\* attempts of a task, or of two tasks) carry the same token.
C21_FreshTokenPerAttempt ==
  /\ \A r \in requests :
       /\ r.token \in 1..issued
       /\ r.call \in 1..tasks[r.task].calls
  /\ \A r1, r2 \in requests :
       (r1.token = r2.token \/ (r1.task = r2.task /\ r1.call = r2.call)) => r1 = r2
  /\ Cardinality(requests) = issued
  /\ authToken = issued

\* A task posted twice, the second time in a retry, and another task posted
\* as well: three requests.
C21_Witness ==
  \E t, u \in UploadIds :
    /\ t # u
    /\ HasRequest(requests, t, 1) /\ HasRequest(requests, t, 2)
    /\ HasRequest(requests, u, 1)

\* --- C22
\* The attempt of task t that is running ends in this step on its timeout.
TimesOutNow(t) ==
  /\ tasks[t].st = "executing"
  /\ tasks'[t].st \in {"backoff", "rejected"}
  /\ tasks'[t].error = TimeoutError

\* C22: every call of execute(), the first one and every retry, is raced
\* against a timer of its own set to requestTimeout (30000 ms when the queue
\* was given none); an attempt ends on the timeout only when that time has
\* passed since the call; the timeout error is one the queue retries, so the
\* task goes to a backoff wait while retries are left and is rejected with
\* the timeout error otherwise.
C22_TimeoutPerAttempt ==
  [][/\ queueOptions.requestTimeout = Undefined
          => cfg.requestTimeout = DefaultRequestTimeout
     /\ \A t \in TaskIds :
          /\ tasks'[t].calls # tasks[t].calls =>
               /\ tasks'[t].calls = tasks[t].calls + 1
               /\ tasks'[t].st = "executing"
               /\ tasks'[t].timer = cfg.requestTimeout
          /\ TimesOutNow(t) =>
               /\ tasks[t].timer = 0
               /\ ShouldRetry(tasks'[t].error)
               /\ IF tasks[t].retryCount < RetryLimit(QState, t)
                  THEN /\ tasks'[t].st = "backoff"
                       /\ tasks'[t].retryCount = tasks[t].retryCount + 1
                  ELSE tasks'[t].st = "rejected"]_vars

\* The first attempt of a task timed out, and so did its retry.
C22_Witness ==
  \E t \in TaskIds :
    /\ Rejected(t) /\ tasks[t].error = TimeoutError
    /\ tasks[t].calls = 2 /\ tasks[t].retryCount = 1

\* --- C23
\* The calls of execute() that were started and have not settled: the one
\* each executing task waits for, and those that lost their race.
InFlight == Cardinality({t \in TaskIds : tasks[t].st = "executing"})
              + Cardinality(abandoned)

\* C23: at every instant at most maxConcurrency calls of execute() have been
\* started and have not settled yet, also after a timeout followed by a
\* retry.
C23_InFlightWithinCapacity == InFlight <= cfg.maxConcurrency

\* --- C24
\* The three kinds of error the queue retries, as the error object shows
\* them: an answer of the upstream with status 500, 502, 503 or 504; a
\* connection that failed or was reset (error.code); a timeout, of the HTTP
\* client (error.code) or of the queue's own race (error.message).
UpstreamUnavailable(e) == e.status \in {500, 502, 503, 504}
ConnectionReset(e) == e.code \in {"NETWORK_ERROR", "ECONNRESET"}
TimedOut(e) == e.code = "ECONNABORTED" \/ e.message = "Request timeout"

\* C24: shouldRetry answers retryable exactly for an upstream answer 500,
\* 502, 503 or 504, a connection reset and a timeout; every other error (any
\* 4xx answer, a 501, a validation failure, a cancelled queue, a missing
\* token) is fatal.
C24_ClassifierExact ==
  verdict # "none" =>
    (verdict = "retryable" <=>
       (UpstreamUnavailable(thrown) \/ ConnectionReset(thrown) \/ TimedOut(thrown)))

\* A 429 answer was classified fatal.
C24_Witness ==
  /\ verdict = "fatal" /\ thrown.status = 429
  /\ thrown.code = "ERR_BAD_REQUEST" /\ thrown.message = "Request failed"

\* --- C25
\* The tasks that hold a slot: dispatched and not settled, running an
\* attempt or waiting for a retry.
SlotHolders == {t \in TaskIds : tasks[t].st \in {"executing", "backoff"}}
\* Task t is started for the first time / reaches its final outcome in this step.
DispatchedNow(t) == tasks[t].calls = 0 /\ tasks'[t].calls = 1
SettledNow(t) == tasks[t].st = "executing" /\ tasks'[t].st \in {"resolved", "rejected"}

\* C25: a task holds its slot from its initial dispatch to its final
\* outcome.  running is the number of tasks dispatched and not settled, the
\* tasks waiting in backoff included, and it changes only by one up for each
\* initial dispatch and one down for each final outcome; a task in backoff
\* can only go on to its next attempt; a dispatched task is never in the
\* queue again, and only a task that was never submitted enters the queue.
C25_SlotHeldForLifetime ==
  [][/\ running = Cardinality(SlotHolders)
     /\ running' = Cardinality(SlotHolders')
     /\ running' <= cfg.maxConcurrency
     /\ running' = running + Cardinality({t \in TaskIds : DispatchedNow(t)})
                           - Cardinality({t \in TaskIds : SettledNow(t)})
     /\ \A t \in TaskIds :
          /\ tasks[t].st = "backoff" => tasks'[t].st \in {"backoff", "executing"}
          /\ tasks[t].st = "backoff" => tasks'[t].calls \in {tasks[t].calls, tasks[t].calls + 1}
          /\ (\E i \in 1..Len(queue') : queue'[i] = t) =>
               /\ tasks'[t].st = "queued" /\ tasks'[t].calls = 0
               /\ tasks[t].st \in {"none", "queued"}]_vars

\* The only slot is held by a task that waits for its retry, and a task
\* waits in the queue.
C25_Witness ==
  /\ cfg.maxConcurrency = 1 /\ running = 1
  /\ \E t \in TaskIds : tasks[t].st = "backoff" /\ tasks[t].timer > 0
  /\ queue # <<>>
  /\ rateTimers = EmptyBag /\ timeSinceLastRequest = cfg.requestInterval

LateCompletion == abandoned' # abandoned /\ abandoned' \subseteq abandoned

\* C27: a task is started for the first time at most once and its future is
\* settled at most once.  execute() is called only for a task that waits and
\* was never started, or for a task whose backoff has ended; a settled task
\* never changes again and is not in the queue; a task rejected by clear()
\* was never started and never will be; and the late completion of a call
\* that lost its race changes no task, nor running, nor the queue.
C27_DispatchedAndSettledOnce ==
  [][/\ \A t \in TaskIds :
          /\ tasks'[t].calls # tasks[t].calls =>
               /\ tasks'[t].calls = tasks[t].calls + 1
               /\ \/ tasks[t].st \in {"none", "queued"} /\ tasks[t].calls = 0
                  \/ tasks[t].st = "backoff"
          /\ IsSettled(QState, t) =>
               /\ tasks'[t] = tasks[t]
               /\ \A i \in 1..Len(queue') : queue'[i] # t
          /\ (Rejected(t) /\ tasks[t].error = QueueCleared) => tasks[t].calls = 0
     /\ LateCompletion =>
          /\ tasks' = tasks /\ running' = running /\ queue' = queue
          /\ rateTimers' = rateTimers]_vars

\* clear() has rejected a task that was never started; another task timed
\* out, was retried and resolved, and the call that timed out is still
\* pending.
C27_Witness ==
  \E t, u \in TaskIds :
    /\ Rejected(u) /\ tasks[u].error = QueueCleared /\ tasks[u].calls = 0
    /\ Resolved(t) /\ tasks[t].calls = 2 /\ <<t, 1>> \in abandoned

\* --- C28
\* A retry attempt of task t begins in this step.
RetryStartsNow(t) == tasks[t].st = "backoff" /\ tasks'[t].st = "executing"

\* C28: the rate gate is for initial dispatches only.  A retry attempt
\* begins when its backoff timer is due, whatever the time since the last
\* request, and leaves lastRequestTime, the pending rate-gate timers, the
\* queue and running as they are; lastRequestTime is set anew only by an
\* initial dispatch, which happens only with the gate open.
C28_RetryBypassesRateGate ==
  [][/\ \A t \in TaskIds :
          /\ RetryStartsNow(t) =>
               /\ tasks[t].timer = 0
               /\ retrySince' = timeSinceLastRequest
               /\ timeSinceLastRequest' = timeSinceLastRequest
               /\ sinceDispatch' = sinceDispatch /\ lastGap' = lastGap
               /\ rateTimers' = rateTimers
               /\ queue' = queue /\ running' = running
          /\ DispatchedNow(t) =>
               /\ timeSinceLastRequest = cfg.requestInterval
               /\ timeSinceLastRequest' = 0
     /\ timeSinceLastRequest' < timeSinceLastRequest =>
          \E t \in TaskIds : DispatchedNow(t)]_vars

\* A retry attempt has begun less than requestInterval after the initial
\* dispatch of another task, for which the gate is still closed.
C28_Witness ==
  /\ retrySince < cfg.requestInterval
  /\ timeSinceLastRequest < cfg.requestInterval
  /\ \E t \in TaskIds : tasks[t].st = "executing" /\ tasks[t].calls = 2
                          /\ tasks[t].timer = cfg.requestTimeout

\* --- C29
\* The items the call of handleConvert that set the counters last has
\* accepted so far.
AcceptedByCurrentRun == IF laterRuns > 0 THEN 0 ELSE totalItems

\* C29: in every reachable state, also when handleConvert is called again
\* while the uploads of an earlier call are still settling, stats.processing
\* is not negative and stats.success and stats.failed do not exceed the
\* number of items the current run has accepted.
C29_StatsWithinRun ==
  /\ stats.processing >= 0
  /\ stats.success <= AcceptedByCurrentRun
  /\ stats.failed <= AcceptedByCurrentRun

\* --- C30
\* The running attempt of task t ends in this step for want of a token.
TokenDeniedNow(t) ==
  /\ tasks[t].st = "executing"
  /\ tasks'[t].st # "executing"
  /\ tasks'[t].error = TokenError

====
